---- MODULE Spec2Model ----
(***************************************************************************)
(* A model of the two beets metadata-source plugins of this repository:    *)
(* beetsplug/youtube.py (YouTubePlugin) and beetsplug/jiosaavn.py          *)
(* (JioSaavnPlugin).                                                       *)
(*                                                                         *)
(* A call of a plugin method is modelled with the answers the remote       *)
(* catalogue gives during the call as its inputs.  A Python exception is   *)
(* the outcome kind "raise"; a returned list is kind "list", a returned    *)
(* single record kind "one", and a returned None kind "none".              *)
(***************************************************************************)
EXTENDS Integers, Sequences, FiniteSets, TLC

VARIABLES
    call,       \* the plugin call in progress or just finished, with its inputs
    result,     \* the outcome of that call
    pc,         \* where the call stands: "idle", "loop" or "done"
    pending,    \* search hits the loop of get_albums / get_tracks has yet to map
    acc,        \* the list get_albums / get_tracks has built so far
    items,      \* the library items handed to _ytupdate, as held in memory
    db,         \* the row the library database holds for each of them
    files,      \* how often each item's tags were written to its file
    seen,       \* per item, whether its views were looked up and the answer
    index,      \* the position of _ytupdate's loop
    clock       \* time.time()

\* the host's library, which only _ytupdate touches
libvars == <<items, db, files, seen, index, clock>>
\* the variables of a search in progress
searchvars == <<pending, acc>>

vars == <<call, result, pc, pending, acc, items, db, files, seen, index, clock>>

(***************************************************************************)
(* Bounds of the model.                                                    *)
(***************************************************************************)
\* the most tracks an album fetched by its id has
MaxTracks == 3
\* the most hits a remote search answers with
MaxHits == 2
\* the most tracks an album found by a search has
MaxHitTracks == 1

(***************************************************************************)
(* Python values.                                                          *)
(***************************************************************************)
\* Python's None, for the numeric fields (disc numbers, counts and view
\* counts are all >= 1 in the model)
None == 0
\* None for the string fields
NoneStr == "None"

Raise == [kind |-> "raise", value |-> <<>>]
ReturnNone == [kind |-> "none", value |-> <<>>]
ReturnList(l) == [kind |-> "list", value |-> l]
ReturnOne(x) == [kind |-> "one", value |-> <<x>>]

Adapters == {"YouTube", "JioSaavn"}

\* The disc number the host's TrackInfo carries for a freshly built track.
\* Neither _get_track passes one, so it is the host's default, None; the
\* numbers are kept in the model for hosts whose records carry a disc.
Mediums == {None, 1, 2}

\* the keys under which the remote answers a view-count lookup: a video id,
\* or the Python builtin `id` that YouTubePlugin._get_track passes
BuiltinId == "builtin id"
VideoIds == {"v1"}
ViewKeys == VideoIds \cup {BuiltinId}
\* the remote's answer to get_song(key)['videoDetails']['viewCount']:
\* None stands for a lookup that raises
ViewAnswers == {None, 5}

Max(S) == CHOOSE x \in S : \A y \in S : y <= x

\* the sequences over S of length 0..n
SeqsUpTo(S, n) == UNION {[1..k -> S] : k \in 0..n}

(***************************************************************************)
(* What the remote catalogue returns.                                      *)
(***************************************************************************)
\* A song object.  keys = "partial": a key or value _get_track reads is
\* missing or malformed (a missing 'artists', a None 'album', an empty
\* duration), so that the mapping raises.
Songs == [keys : {"full", "partial"}, videoId : VideoIds, medium : Mediums]

\* An album-details object.  keys = "partial": a key get_album_info reads
\* directly is missing.  image_ok: fetching and decoding the cover URL
\* succeeds.  JioSaavn's songs[0].label and release_date may be None.
YouTubeAlbums(n) ==
    [keys : {"full", "partial"}, image_ok : BOOLEAN, songs : SeqsUpTo(Songs, n)]

JioSaavnAlbums(n) ==
    [keys : {"full", "partial"}, image_ok : BOOLEAN,
     label : {NoneStr, "L"}, release_date : {NoneStr, "2020-01-02"},
     songs : SeqsUpTo(Songs, n)]

\* the answer of one remote call: it raises, or it returns data
Answers(Data) == {[kind |-> "raises"]} \cup [kind : {"returns"}, data : Data]
Fails(answer) == answer.kind = "raises"
\* in the place of the answer of a call that is not made
NotCalled == [kind |-> "not called"]

(***************************************************************************)
(* YouTubePlugin.get_yt_views and is_valid_image_url (both adapters):      *)
(* every exception becomes None / False.                                   *)
(***************************************************************************)
get_yt_views(id, remoteViews) == remoteViews[id]

is_valid_image_url(item) == item.image_ok

(***************************************************************************)
(* _get_track of both adapters.  TrackInfo's index and medium_total        *)
(* default to None.                                                        *)
(***************************************************************************)
TrackRaises(song) == song.keys = "partial"

YouTubeGetTrack(song, remoteViews) ==
    [track_id |-> song.videoId,
     yt_views |-> get_yt_views(BuiltinId, remoteViews),
     index |-> None, medium |-> song.medium, medium_total |-> None,
     data_source |-> "YouTube"]

JioSaavnGetTrack(song) ==
    [track_id |-> song.videoId,
     yt_views |-> None,
     index |-> None, medium |-> song.medium, medium_total |-> None,
     data_source |-> "JioSaavn"]

(***************************************************************************)
(* The loop of get_album_info: map each song, number it, count the tracks  *)
(* of each disc.                                                           *)
(***************************************************************************)
IndexedTracks(tracks) ==
    [i \in 1..Len(tracks) |-> [tracks[i] EXCEPT !.index = i]]

\* medium_totals: the defaultdict(int), as a function on the discs seen
MediumTotals(tracks) ==
    [m \in {tracks[i].medium : i \in 1..Len(tracks)} |->
        Cardinality({i \in 1..Len(tracks) : tracks[i].medium = m})]

\* max(medium_totals.keys()): ValueError on no key, TypeError on None
\* compared with a number
MaxKeysRaises(totals) ==
    \/ DOMAIN totals = {}
    \/ None \in DOMAIN totals /\ DOMAIN totals # {None}

\* a slip that takes the greatest count instead of the greatest disc number
MaxValues(totals) == Max({totals[m] : m \in DOMAIN totals})

MaxKeys(totals) == Max(DOMAIN totals)

\* for track in tracks: track.medium_total = medium_totals[track.medium]
AssignMediumTotals(tracks, totals) ==
    [i \in 1..Len(tracks) |->
        [tracks[i] EXCEPT !.medium_total = totals[tracks[i].medium]]]

(***************************************************************************)
(* YouTubePlugin.get_album_info(item, browseID)                            *)
(***************************************************************************)
YouTubeCoverArt(item, exclude_cover) ==
    IF ~exclude_cover
    THEN IF is_valid_image_url(item) THEN "url" ELSE NoneStr
    ELSE NoneStr

YouTubeAlbumTracks(item, remoteViews) ==
    IndexedTracks([i \in 1..Len(item.songs) |->
                      YouTubeGetTrack(item.songs[i], remoteViews)])

YouTubeAlbumRaises(item) ==
    \/ item.keys = "partial"
    \/ \E i \in 1..Len(item.songs) : TrackRaises(item.songs[i])
    \/ MaxKeysRaises(MediumTotals([i \in 1..Len(item.songs) |->
                                      [medium |-> item.songs[i].medium]]))

YouTubeGetAlbumInfo(item, browseID, exclude_cover, remoteViews) ==
    IF YouTubeAlbumRaises(item) THEN Raise
    ELSE LET tracks == YouTubeAlbumTracks(item, remoteViews)
             medium_totals == MediumTotals(tracks)
         IN ReturnOne([album_id |-> browseID,
                       tracks |-> tracks,
                       mediums |-> MaxKeys(medium_totals),
                       data_source |-> "YouTube",
                       cover_art_url |-> YouTubeCoverArt(item, exclude_cover)])

(***************************************************************************)
(* JioSaavnPlugin.get_album_info(item, type)                               *)
(***************************************************************************)
\* cover_art_url, label, month and day are bound only inside an `if`:
\* reading them in the AlbumInfo(...) call raises UnboundLocalError
\* when the `if` was not taken
JioSaavnUnbound(item) ==
    \/ ~is_valid_image_url(item)
    \/ item.label = NoneStr
    \/ item.release_date = NoneStr

JioSaavnAlbumTracks(item) ==
    LET tracks == IndexedTracks([i \in 1..Len(item.songs) |->
                                    JioSaavnGetTrack(item.songs[i])])
    IN AssignMediumTotals(tracks, MediumTotals(tracks))

JioSaavnAlbumRaises(item) ==
    \/ item.keys = "partial"
    \/ Len(item.songs) = 0            \* item["songs"][0]: IndexError
    \/ \E i \in 1..Len(item.songs) : TrackRaises(item.songs[i])
    \/ MaxKeysRaises(MediumTotals([i \in 1..Len(item.songs) |->
                                      [medium |-> item.songs[i].medium]]))
    \/ JioSaavnUnbound(item)

JioSaavnGetAlbumInfo(item) ==
    IF JioSaavnAlbumRaises(item) THEN Raise
    ELSE LET tracks == JioSaavnAlbumTracks(item)
             medium_totals == MediumTotals(tracks)
         IN ReturnOne([album_id |-> "albumid",
                       tracks |-> tracks,
                       mediums |-> MaxKeys(medium_totals),
                       data_source |-> "JioSaavn",
                       cover_art_url |-> "url"])


(***************************************************************************)
(* The query normalizer at the top of get_albums / get_tracks.  A query is *)
(* a sequence of one-character strings.                                    *)
(***************************************************************************)
Digits == {"1", "2", "3"}
Letters == {"C", "D", "I", "S", "c", "d", "i", "s", "x"}
\* \w: letters, digits and the underscore
IsWord(c) == c \in Letters \cup Digits \cup {"_"}
\* \s
IsSpace(c) == c = " "
\* a slip that leaves (?i) out
CaseSensitive(c) == c

\* (?i): the letter lowercased
Lower(c) ==
    CASE c = "C" -> "c" [] c = "D" -> "d" [] c = "I" -> "i" [] c = "S" -> "s"
      [] OTHER -> c

\* re.sub(r'(?u)\W+', ' ', query): each maximal run of non-word characters
\* becomes one space
RECURSIVE StripNonWord(_)
StripNonWord(q) ==
    IF q = <<>> THEN <<>>
    ELSE IF IsWord(Head(q)) THEN <<Head(q)>> \o StripNonWord(Tail(q))
    ELSE IF Len(q) > 1 /\ ~IsWord(q[2]) THEN StripNonWord(Tail(q))
    ELSE <<" ">> \o StripNonWord(Tail(q))

IsDigit(c) == c \in Digits

\* \s* at position p: the length of the run of whitespace
RECURSIVE SpaceRun(_, _)
SpaceRun(q, p) ==
    IF p <= Len(q) /\ IsSpace(q[p]) THEN 1 + SpaceRun(q, p + 1) ELSE 0

\* \d+ at position p: the length of the run of digits
RECURSIVE DigitRun(_, _)
DigitRun(q, p) ==
    IF p <= Len(q) /\ IsDigit(q[p]) THEN 1 + DigitRun(q, p + 1) ELSE 0

KeywordAt(q, p, kw) ==
    /\ p + Len(kw) - 1 <= Len(q)
    /\ \A k \in 1..Len(kw) : Lower(q[p + k - 1]) = kw[k]

\* (CD|disc) under (?i): the length of the keyword at p, 0 when there is none
KeywordLength(q, p) ==
    IF KeywordAt(q, p, <<"c", "d">>) THEN 2
    ELSE IF KeywordAt(q, p, <<"d", "i", "s", "c">>) THEN 4
    ELSE 0

\* \b before position p
WordBoundary(q, p) ==
    LET before == p > 1 /\ IsWord(q[p - 1])
        after == p <= Len(q) /\ IsWord(q[p])
    IN before # after

\* r'(?i)\b(CD|disc)\s*\d+' matched at position p: the position after the
\* match, 0 when there is no match at p
MarkerEnd(q, p) ==
    LET kw == KeywordLength(q, p)
        sp == SpaceRun(q, p + kw)
        dg == DigitRun(q, p + kw + sp)
    IN IF WordBoundary(q, p) /\ kw > 0 /\ dg > 0 THEN p + kw + sp + dg ELSE 0

\* re.sub(marker, '', q) from position p on: the leftmost matches, which do
\* not overlap, are dropped
RECURSIVE StripMarkersFrom(_, _)
StripMarkersFrom(q, p) ==
    IF p > Len(q) THEN <<>>
    ELSE IF MarkerEnd(q, p) > 0 THEN StripMarkersFrom(q, MarkerEnd(q, p))
    ELSE <<q[p]>> \o StripMarkersFrom(q, p + 1)

StripMarkers(q) == StripMarkersFrom(q, 1)

\* the two re.sub steps
NormalizeQuery(query) == StripMarkers(StripNonWord(query))

(***************************************************************************)
(* The state between two calls, and the inputs of a call.                  *)
(***************************************************************************)
Idle == [op |-> "idle"]

\* the queries the host searches with in the adapter specification
SampleQueries == {<<"x">>, <<"x", "!", "C", "D", "1">>}

\* self.config['exclude_fields'] names cover_art_url (YouTube only)
ExcludeCover(adapter) == IF adapter = "YouTube" THEN BOOLEAN ELSE {FALSE}

\* the view counts the remote holds (read by the YouTube adapter only)
RemoteViews(adapter) ==
    IF adapter = "YouTube" THEN [ViewKeys -> ViewAnswers]
    ELSE {[k \in ViewKeys |-> None]}

AlbumsOf(adapter, n) ==
    IF adapter = "YouTube" THEN YouTubeAlbums(n) ELSE JioSaavnAlbums(n)

\* the references a host passes to album_for_id / track_for_id
YouTubeRefs == {"MPREb_1", "OLAK5uy_1", "list=OLAK5uy_1"}
JioSaavnRefs == {"jiosaavn.com/album/a", "jiosaavn.com/song/s", "other"}

(***************************************************************************)
(* YouTubePlugin.album_for_id(browseId)                                    *)
(***************************************************************************)
IsPlaylistRef(browseId) == browseId \in {"OLAK5uy_1", "list=OLAK5uy_1"}

\* resolve: the answer of yt.get_album_browse_id, called outside the try;
\* fetch: the answer of yt.get_album, called inside it
YouTubeAlbumForIdResult(browseId, resolve, fetch, exclude_cover, remoteViews) ==
    IF IsPlaylistRef(browseId) /\ Fails(resolve) THEN Raise
    ELSE IF Fails(fetch) THEN ReturnNone
    ELSE YouTubeGetAlbumInfo(fetch.data, "album", exclude_cover, remoteViews)

YouTubeAlbumForId ==
    /\ pc = "idle"
    /\ \E browseId \in YouTubeRefs,
          resolve \in Answers({"MPREb_1"}) \cup {NotCalled},
          fetch \in Answers(YouTubeAlbums(MaxTracks)) \cup {NotCalled},
          exclude_cover \in ExcludeCover("YouTube"),
          remoteViews \in RemoteViews("YouTube") :
        \* the answers of calls that are not made are not inputs
        /\ ~IsPlaylistRef(browseId) => resolve = NotCalled
        /\ IsPlaylistRef(browseId) => resolve # NotCalled
        /\ (fetch = NotCalled) = (IsPlaylistRef(browseId) /\ Fails(resolve))
        /\ fetch.kind # "returns" =>
              ~exclude_cover /\ remoteViews = [k \in ViewKeys |-> None]
        /\ call' = [op |-> "album_for_id", adapter |-> "YouTube",
                    ref |-> browseId, resolve |-> resolve, fetch |-> fetch,
                    exclude_cover |-> exclude_cover,
                    remoteViews |-> remoteViews]
        /\ result' = YouTubeAlbumForIdResult(browseId, resolve, fetch,
                                             exclude_cover, remoteViews)
    /\ pc' = "done"
    /\ UNCHANGED <<searchvars, libvars>>

(***************************************************************************)
(* JioSaavnPlugin.album_for_id(release_id) and track_for_id(track_id)      *)
(***************************************************************************)
JioSaavnAlbumForIdResult(release_id, fetch) ==
    IF release_id # "jiosaavn.com/album/a" THEN ReturnNone
    ELSE IF Fails(fetch) THEN Raise
    ELSE JioSaavnGetAlbumInfo(fetch.data)

JioSaavnAlbumForId ==
    /\ pc = "idle"
    /\ \E release_id \in JioSaavnRefs,
          fetch \in Answers(JioSaavnAlbums(MaxTracks)) \cup {NotCalled} :
        /\ (fetch = NotCalled) = (release_id # "jiosaavn.com/album/a")
        /\ call' = [op |-> "album_for_id", adapter |-> "JioSaavn",
                    ref |-> release_id, fetch |-> fetch,
                    exclude_cover |-> FALSE]
        /\ result' = JioSaavnAlbumForIdResult(release_id, fetch)
    /\ pc' = "done"
    /\ UNCHANGED <<searchvars, libvars>>

\* fetch.data is song_details["songs"], of which the first is mapped
JioSaavnTrackForIdResult(track_id, fetch) ==
    IF track_id # "jiosaavn.com/song/s" THEN ReturnNone
    ELSE IF Fails(fetch) THEN Raise
    ELSE IF fetch.data = <<>> THEN Raise
    ELSE IF TrackRaises(fetch.data[1]) THEN Raise
    ELSE ReturnOne(JioSaavnGetTrack(fetch.data[1]))

JioSaavnTrackForId ==
    /\ pc = "idle"
    /\ \E track_id \in JioSaavnRefs,
          fetch \in Answers(SeqsUpTo(Songs, 1)) \cup {NotCalled} :
        /\ (fetch = NotCalled) = (track_id # "jiosaavn.com/song/s")
        /\ call' = [op |-> "track_for_id", adapter |-> "JioSaavn",
                    ref |-> track_id, fetch |-> fetch]
        /\ result' = JioSaavnTrackForIdResult(track_id, fetch)
    /\ pc' = "done"
    /\ UNCHANGED <<searchvars, libvars>>

(***************************************************************************)
(* get_albums / get_tracks, and candidates / item_candidates around them.  *)
(* The search is one step; each hit of the loop, with its detail fetch     *)
(* and its mapping, is one more.                                           *)
(***************************************************************************)
SearchOps == {"get_albums", "get_tracks", "candidates", "item_candidates"}
IsAlbumOp(op) == op \in {"get_albums", "candidates"}
\* candidates and item_candidates: try: return self.get_...(query)
\* except Exception: return []
\* a slip that leaves the try/except out of item_candidates
GuardedAlbumsOnly(op) == op = "candidates"

Guarded(op) == op \in {"candidates", "item_candidates"}

Catch(op, outcome) ==
    IF Guarded(op) /\ outcome.kind = "raise" THEN ReturnList(<<>>) ELSE outcome

\* candidates: release alone when va_likely, else f'{release} {artist}'
CandidatesQuery(release, artist, va_likely) ==
    IF va_likely THEN release ELSE release \o <<" ">> \o artist

\* item_candidates: f'{title} {artist}'
ItemCandidatesQuery(title, artist) == title \o <<" ">> \o artist

\* what a failed search leaves: YouTube returns the empty list from the
\* except clause; JioSaavn only logs and goes on to read the unbound `data`
SearchFailedOutcome(adapter) ==
    IF adapter = "YouTube" THEN ReturnList(<<>>) ELSE Raise

StartSearch ==
    /\ pc = "idle"
    /\ \E adapter \in Adapters, op \in SearchOps, text \in SampleQueries,
          va_likely \in BOOLEAN,
          search \in Answers(0..MaxHits) :
      \E exclude_cover \in ExcludeCover(adapter),
         remoteViews \in RemoteViews(adapter) :
        LET query == CASE op = "candidates" ->
                            CandidatesQuery(text, <<"y">>, va_likely)
                       [] op = "item_candidates" ->
                            ItemCandidatesQuery(text, <<"y">>)
                       [] OTHER -> text
            outcome == IF Fails(search) THEN SearchFailedOutcome(adapter)
                       ELSE ReturnList(<<>>)
            finished == Fails(search) \/ search.data = 0
        IN  /\ va_likely => op = "candidates"
            /\ finished =>
                 ~exclude_cover /\ remoteViews = [k \in ViewKeys |-> None]
            /\ call' = [op |-> op, adapter |-> adapter, query |-> query,
                        sent |-> NormalizeQuery(query),
                        search_failed |-> Fails(search),
                        hits |-> IF Fails(search) THEN 0 ELSE search.data,
                        detail_failed |-> FALSE, mapping_raised |-> FALSE,
                        image_failed |-> FALSE, malformed |-> FALSE,
                        exclude_cover |-> exclude_cover,
                        remoteViews |-> remoteViews]
            /\ pending' = IF finished THEN 0 ELSE search.data
            /\ pc' = IF finished THEN "done" ELSE "loop"
            /\ result' = IF finished THEN Catch(op, outcome) ELSE ReturnNone
    /\ acc' = <<>>
    /\ UNCHANGED libvars

\* one hit of get_albums: the hit's keys are read, the album is fetched,
\* get_album_info maps it
MapAlbumHit(adapter, hit, browseId, detail, exclude_cover, remoteViews) ==
    IF hit = "partial" \/ Fails(detail) THEN Raise
    ELSE IF adapter = "YouTube"
    THEN YouTubeGetAlbumInfo(detail.data, browseId, exclude_cover, remoteViews)
    ELSE JioSaavnGetAlbumInfo(detail.data)

\* one hit of get_tracks: the song is fetched, _get_track maps it
MapTrackHit(adapter, hit, detail, remoteViews) ==
    IF hit = "partial" \/ Fails(detail) THEN Raise
    ELSE IF TrackRaises(detail.data) THEN Raise
    ELSE IF adapter = "YouTube"
    THEN ReturnOne(YouTubeGetTrack(detail.data, remoteViews))
    ELSE ReturnOne(JioSaavnGetTrack(detail.data))

\* is_valid_image_url was asked about the album's cover and said False
ImageCheckFailed(adapter, detail, exclude_cover) ==
    /\ detail.kind = "returns"
    /\ ~exclude_cover
    /\ ~is_valid_image_url(detail.data)

\* the album's mapping raises whatever is_valid_image_url says of its cover
MalformedAlbum(adapter, item) ==
    IF adapter = "YouTube" THEN YouTubeAlbumRaises(item)
    ELSE JioSaavnAlbumRaises([item EXCEPT !.image_ok = TRUE])

\* the hit is mapped; the call record keeps what went wrong with it
AfterHit(mapped, image_failed, detail_failed, malformed) ==
    /\ call' = [call EXCEPT
                  !.detail_failed = detail_failed,
                  !.malformed = malformed,
                  !.mapping_raised = mapped.kind = "raise" /\ ~detail_failed,
                  !.image_failed = call.image_failed \/ image_failed]
    /\ IF mapped.kind = "raise"
       THEN /\ pc' = "done"
            /\ result' = Catch(call.op, Raise)
            /\ UNCHANGED <<pending, acc>>
       ELSE /\ acc' = acc \o mapped.value
            /\ pending' = pending - 1
            /\ pc' = IF pending = 1 THEN "done" ELSE "loop"
            /\ result' = IF pending = 1 THEN ReturnList(acc \o mapped.value)
                         ELSE ReturnNone

AlbumHit ==
    /\ pc = "loop"
    /\ IsAlbumOp(call.op)
    /\ \E hit \in {"full", "partial"},
          detail \in Answers(AlbumsOf(call.adapter, MaxHitTracks))
                        \cup {NotCalled} :
        /\ (detail = NotCalled) = (hit = "partial")
        /\ UNCHANGED libvars
        /\ AfterHit(MapAlbumHit(call.adapter, hit, "MPREb_1", detail,
                                call.exclude_cover, call.remoteViews),
                    ImageCheckFailed(call.adapter, detail, call.exclude_cover),
                    Fails(detail),
                    \/ hit = "partial"
                    \/ /\ detail.kind = "returns"
                       /\ MalformedAlbum(call.adapter, detail.data))

TrackHit ==
    /\ pc = "loop"
    /\ ~IsAlbumOp(call.op)
    /\ \E hit \in {"full", "partial"},
          detail \in Answers(Songs) \cup {NotCalled} :
        /\ (detail = NotCalled) = (hit = "partial")
        /\ UNCHANGED libvars
        /\ AfterHit(MapTrackHit(call.adapter, hit, detail, call.remoteViews),
                    FALSE, Fails(detail),
                    \/ hit = "partial"
                    \/ detail.kind = "returns" /\ TrackRaises(detail.data))

(***************************************************************************)
(* The adapters' specification.                                            *)
(***************************************************************************)
\* no library is involved in the adapters' calls
NoLibrary ==
    /\ items = <<>>
    /\ db = <<>>
    /\ files = <<>>
    /\ seen = <<>>
    /\ index = 0
    /\ clock = 0

Init ==
    /\ call = Idle
    /\ result = ReturnNone
    /\ pc = "idle"
    /\ pending = 0
    /\ acc = <<>>
    /\ NoLibrary

\* the host takes the outcome; the plugin is ready for the next call
Finish ==
    /\ pc = "done"
    /\ call' = Idle
    /\ result' = ReturnNone
    /\ pc' = "idle"
    /\ pending' = 0
    /\ acc' = <<>>
    /\ UNCHANGED libvars

Next ==
    \/ YouTubeAlbumForId
    \/ JioSaavnAlbumForId
    \/ JioSaavnTrackForId
    \/ StartSearch
    \/ AlbumHit
    \/ TrackHit
    \/ Finish

Spec == Init /\ [][Next]_vars

(***************************************************************************)
(* Properties of the adapters, checked under Spec.                         *)
(***************************************************************************)
\* the album records a finished call hands to the host
AlbumsReturned ==
    IF pc = "done" /\ call.op \in {"album_for_id", "get_albums", "candidates"}
    THEN {result.value[i] : i \in 1..Len(result.value)}
    ELSE {}

\* C1: candidates and item_candidates of both adapters never raise, and
\* return the empty list whenever the search, a detail fetch or a mapping
\* step raised.
C1_CandidatesNeverRaise ==
    pc = "done" /\ call.op \in {"candidates", "item_candidates"} =>
        /\ result.kind = "list"
        /\ call.search_failed \/ call.detail_failed \/ call.mapping_raised
             => result.value = <<>>

\* a per-hit detail fetch fails after an earlier hit was mapped, in both
\* guarded entry points, and the call returns the empty list
C1_Witness ==
    /\ pc = "done"
    /\ call.op = "item_candidates"
    /\ call.adapter = "JioSaavn"
    /\ call.detail_failed
    /\ Len(acc) = 1
    /\ result = ReturnList(<<>>)

\* C2: get_albums and get_tracks, called directly, return the empty list
\* and do not raise when the search or a per-hit detail fetch fails.
C2_SearchSoftFailure ==
    pc = "done" /\ call.op \in {"get_albums", "get_tracks"} =>
        (call.search_failed \/ call.detail_failed
            => result = ReturnList(<<>>))

\* C3: album_for_id and track_for_id turn a failure of a remote call or
\* of the mapping into None; nothing is raised to the host.
C3_LookupFailureIsAbsent ==
    pc = "done" /\ call.op \in {"album_for_id", "track_for_id"} =>
        /\ result.kind # "raise"
        /\ Fails(call.fetch) => result.kind = "none"

\* C5: in every mapped album, each track's medium_total is the number of
\* the album's tracks that share its disc number.
C5_MediumTotalCountsDisc ==
    \A a \in AlbumsReturned :
        \A i \in 1..Len(a.tracks) :
            a.tracks[i].medium_total =
                Cardinality({j \in 1..Len(a.tracks) :
                                a.tracks[j].medium = a.tracks[i].medium})

\* C6: an album whose cover fails is_valid_image_url is still mapped, with
\* no cover-art URL: album_for_id returns it, and a search that met such
\* a cover and no other failure returns every hit.
C6_InvalidCoverKeepsAlbum ==
    /\ pc = "done" /\ call.op = "album_for_id"
         /\ call.fetch.kind = "returns"
         /\ ImageCheckFailed(call.adapter, call.fetch, call.exclude_cover)
         /\ ~MalformedAlbum(call.adapter, call.fetch.data)
         => /\ result.kind = "one"
            /\ result.value[1].cover_art_url = NoneStr
    /\ pc = "done" /\ call.op \in {"get_albums", "candidates"}
         /\ call.image_failed
         /\ ~call.search_failed /\ ~call.detail_failed /\ ~call.malformed
         => /\ result.kind = "list"
            /\ Len(result.value) = call.hits

\* the greatest number of tracks any one disc of the album holds
MaxDiscSize(a) ==
    Max({Cardinality({j \in 1..Len(a.tracks) :
                         a.tracks[j].medium = a.tracks[i].medium}) :
            i \in 1..Len(a.tracks)})

FetchedBrowseId ==
    IF IsPlaylistRef(call.ref) THEN call.resolve.data ELSE call.ref

\* C13: the album that YouTube's album_for_id returns carries the browse
\* ID of the album fetched as its album_id, and is the record get_albums
\* maps a search hit with that browse ID to.
C13_AlbumForIdCarriesBrowseId ==
    /\ pc = "done"
    /\ call.op = "album_for_id"
    /\ call.adapter = "YouTube"
    /\ result.kind = "one"
    => /\ result.value[1].album_id = FetchedBrowseId
       /\ result = MapAlbumHit("YouTube", "full", FetchedBrowseId, call.fetch,
                               call.exclude_cover, call.remoteViews)

\* the track records a finished call hands to the host, on their own or
\* within an album
TracksReturned ==
    UNION {{a.tracks[i] : i \in 1..Len(a.tracks)} : a \in AlbumsReturned}
    \cup
    (IF pc = "done"
        /\ call.op \in {"track_for_id", "get_tracks", "item_candidates"}
     THEN {result.value[i] : i \in 1..Len(result.value)}
     ELSE {})

\* C14: a track mapped by the YouTube adapter carries as yt_views the view
\* count the remote reports for the track's own videoId, whenever the
\* lookup for that videoId succeeds.
C14_ViewsKeyedByVideoId ==
    \A t \in TracksReturned :
        /\ t.data_source = "YouTube"
        /\ call.remoteViews[t.track_id] # None
        => t.yt_views = call.remoteViews[t.track_id]

(***************************************************************************)
(* YouTubePlugin._ytupdate(items, write): the `ytupdate` command.          *)
(***************************************************************************)
\* the most items the command is run on
MaxItems == 3

\* A library item: yt_track_id is "absent" when the item has no such
\* attribute; yt_views and yt_updated are what an earlier run left.
LibraryItems ==
    [yt_track_id : VideoIds \cup {"absent"}, yt_views : {None, 3},
     yt_updated : {None, 1}]

\* the database row of an item, with the number of store() calls it took
RowOf(item, stores) ==
    [yt_views |-> item.yt_views, yt_updated |-> item.yt_updated,
     stores |-> stores]

InitUpdate ==
    /\ call = Idle
    /\ result = ReturnNone
    /\ pc = "idle"
    /\ pending = 0
    /\ acc = <<>>
    /\ items \in SeqsUpTo(LibraryItems, MaxItems)
    /\ db = [i \in 1..Len(items) |-> RowOf(items[i], 0)]
    /\ files = [i \in 1..Len(items) |-> 0]
    /\ seen = [i \in 1..Len(items) |-> [looked |-> FALSE, views |-> None]]
    /\ index = 0
    /\ clock = 2

\* for index, item in enumerate(items, start=1)
YtUpdateStart ==
    /\ pc = "idle"
    /\ \E write \in BOOLEAN :
         call' = [op |-> "ytupdate", write |-> write, before |-> items,
                  started |-> clock]
    /\ index' = 1
    /\ pc' = IF Len(items) = 0 THEN "done" ELSE "loop"
    /\ UNCHANGED <<result, searchvars, items, db, files, seen, clock>>

\* the loop moves on to the next item, or ends after the last
Continue ==
    /\ index' = index + 1
    /\ pc' = IF index = Len(items) THEN "done" ELSE "loop"

\* item.yt_track_id raises AttributeError: continue
YtUpdateSkip ==
    /\ pc = "loop"
    /\ items[index].yt_track_id = "absent"
    /\ Continue
    /\ UNCHANGED <<call, result, searchvars, items, db, files, seen, clock>>

\* a slip that refreshes the views and forgets the timestamp
RefreshedViewsOnly(item, views, now) == [item EXCEPT !.yt_views = views]

\* item.yt_views = views; item.yt_updated = time.time()
Refreshed(item, views, now) ==
    [item EXCEPT !.yt_views = views, !.yt_updated = now]

\* The item has a track id: its views are looked up (get_yt_views returns
\* None when the lookup fails, and raises nothing), the item is changed in
\* memory, stored, and written to its file when `write` is set.
\* item.store() may raise (the database fails): the exception leaves
\* _ytupdate.  item.try_write() logs a failed write and raises nothing.
YtUpdateItem ==
    /\ pc = "loop"
    /\ items[index].yt_track_id # "absent"
    /\ \E remoteViews \in [ViewKeys -> ViewAnswers],
          store_ok \in BOOLEAN, write_ok \in BOOLEAN :
        LET views == get_yt_views(items[index].yt_track_id, remoteViews)
            item == Refreshed(items[index], views, clock)
        IN  /\ seen' = [seen EXCEPT ![index] =
                           [looked |-> TRUE, views |-> views]]
            /\ items' = [items EXCEPT ![index] = item]
            /\ clock' = clock + 1
            /\ IF store_ok
               THEN /\ db' = [db EXCEPT ![index] =
                                RowOf(item, db[index].stores + 1)]
                    /\ files' = IF call.write /\ write_ok
                                THEN [files EXCEPT ![index] = @ + 1]
                                ELSE files
                    /\ Continue
                    /\ UNCHANGED result
               ELSE /\ pc' = "failed"
                    /\ result' = Raise
                    /\ UNCHANGED <<db, files, index>>
    /\ UNCHANGED <<call, searchvars>>

NextUpdate ==
    \/ YtUpdateStart
    \/ YtUpdateSkip
    \/ YtUpdateItem

SpecUpdate == InitUpdate /\ [][NextUpdate]_vars

(***************************************************************************)
(* Properties of _ytupdate, checked under SpecUpdate.                      *)
(***************************************************************************)
HasTrackId(i) == call.before[i].yt_track_id # "absent"

\* C7: when the batch stops with a failure at item k, every earlier item
\* that had a track id is stored, once, with the view count its lookup
\* returned and a timestamp taken in this run, in iteration order; no
\* later item has been looked up, changed, stored or written.
C7_NoRollback ==
    pc = "failed" =>
        /\ \A j \in 1..(index - 1) :
             HasTrackId(j) =>
                /\ seen[j].looked
                /\ db[j] = [yt_views |-> seen[j].views,
                            yt_updated |-> items[j].yt_updated,
                            stores |-> 1]
                /\ db[j].yt_updated >= call.started
                /\ \A i \in 1..(j - 1) :
                     HasTrackId(i) => db[i].yt_updated < db[j].yt_updated
        /\ \A j \in (index + 1)..Len(items) :
                /\ ~seen[j].looked
                /\ items[j] = call.before[j]
                /\ db[j] = RowOf(call.before[j], 0)
                /\ files[j] = 0

\* the store of the second of three items fails, after the first was
\* refreshed from 3 to 5 views and written, and before the third
C7_Witness ==
    /\ pc = "failed"
    /\ index = 2
    /\ Len(items) = 3
    /\ HasTrackId(1) /\ HasTrackId(3)
    /\ call.before[1].yt_views = 3
    /\ db[1].yt_views = 5
    /\ files[1] = 1

\* C12: an item whose view-count lookup failed is skipped: it keeps its
\* yt_views and yt_updated, is neither stored nor written, and the loop
\* has moved on to the next item.
C12_FailedLookupSkipsItem ==
    \A j \in 1..Len(items) :
        seen[j].looked /\ seen[j].views = None =>
            /\ items[j] = call.before[j]
            /\ db[j] = RowOf(call.before[j], 0)
            /\ files[j] = 0
            /\ pc = "done" \/ (pc = "loop" /\ index > j)

(***************************************************************************)
(* The import helpers of the YouTube adapter.                              *)
(***************************************************************************)
\* the most entries a playlist or a song search answers with
MaxSongs == 2

\* Text as the remote sends it, and str.replace("&quot;", "\"") followed
\* by str.strip() on it
RawTexts == {"T", " T&quot; "}
Clean(raw) == IF raw = " T&quot; " THEN "T\"" ELSE raw

\* An entry of a playlist or of a song search.
\*   title:   a text, "absent" (no such key) or NoneStr (the key holds None)
\*   artists: "absent", "empty" ([] or None), "named", or "unnamed" (the
\*            first artist's 'name' holds None)
\*   album:   NoneStr (None or no 'name') or "named"
\*   video:   "no id", or what get_song(videoId) answers: "raises",
\*            "no count" (no viewCount) or a count
PlaylistEntries ==
    [title : RawTexts \cup {"absent", NoneStr},
     artists : {"empty", "named", "unnamed"},
     album : {NoneStr, "named"}]

SearchEntries ==
    [title : RawTexts \cup {NoneStr},
     artists : {"empty", "named"},
     album : {NoneStr, "named"},
     video : {"no id", "raises", "5"}]

\* title = song.get('title', '').replace(...): AttributeError on None;
\* artists[0].get('name', '').replace(...): AttributeError on None
EntryRaises(song) == song.title = NoneStr \/ song.artists = "unnamed"

EntryTitle(song) == IF song.title = "absent" THEN "" ELSE Clean(song.title)
EntryArtist(song) == IF song.artists = "named" THEN "A" ELSE ""
EntryAlbum(song) == IF song.album = "named" THEN "Al" ELSE NoneStr

\* A URL is the sequence of its parts.  url.split("playlist?list=")[1],
\* then .split("&")[0]: what follows the first "playlist?list=" up to the
\* next "&" or "playlist?list=".
Urls ==
    {<<"https://music.youtube.com/", "playlist?list=", "PL1">>,
     <<"https://music.youtube.com/", "playlist?list=", "PL1", "&", "si=x">>,
     <<"https://music.youtube.com/", "watch?v=", "v1">>}

HasPlaylistSegment(url) == \E i \in 1..Len(url) : url[i] = "playlist?list="

RECURSIVE UpToSeparator(_)
UpToSeparator(parts) ==
    IF parts = <<>> \/ Head(parts) \in {"&", "playlist?list="} THEN <<>>
    ELSE <<Head(parts)>> \o UpToSeparator(Tail(parts))

PlaylistId(url) ==
    LET first == CHOOSE i \in 1..Len(url) :
                    /\ url[i] = "playlist?list="
                    /\ \A j \in 1..(i - 1) : url[j] # "playlist?list="
    IN UpToSeparator(SubSeq(url, first + 1, Len(url)))

\* what get_playlist answers: None, a dict without 'tracks', or one with
PlaylistData ==
    {[shape |-> "None"], [shape |-> "no tracks"]}
        \cup [shape : {"tracks"}, tracks : SeqsUpTo(PlaylistEntries, MaxSongs)]

PlaylistSongs(songs) ==
    [i \in 1..Len(songs) |->
        [title |-> EntryTitle(songs[i]), artist |-> EntryArtist(songs[i]),
         album |-> EntryAlbum(songs[i])]]

\* the loop over the entries runs outside the try
ImportPlaylistResult(url, answer) ==
    IF ~HasPlaylistSegment(url) THEN ReturnList(<<>>)
    ELSE IF Fails(answer) THEN ReturnList(<<>>)
    ELSE IF answer.data.shape # "tracks" THEN ReturnList(<<>>)
    ELSE IF \E i \in 1..Len(answer.data.tracks) :
                EntryRaises(answer.data.tracks[i])
    THEN Raise
    ELSE ReturnList(PlaylistSongs(answer.data.tracks))

\* the number of self._log.error(...) lines of the call
ImportPlaylistErrors(url, answer) ==
    IF ~HasPlaylistSegment(url) THEN 1
    ELSE IF Fails(answer) THEN 1
    ELSE IF answer.data.shape # "tracks" THEN 1
    ELSE 0

ImportYoutubePlaylist ==
    /\ pc = "idle"
    /\ \E url \in Urls, answer \in Answers(PlaylistData) \cup {NotCalled} :
        /\ (answer = NotCalled) = ~HasPlaylistSegment(url)
        /\ call' = [op |-> "import_youtube_playlist", url |-> url,
                    answer |-> answer,
                    playlist_id |-> IF HasPlaylistSegment(url)
                                    THEN PlaylistId(url) ELSE <<>>,
                    remote_calls |-> IF answer = NotCalled THEN 0 ELSE 1,
                    errors |-> ImportPlaylistErrors(url, answer)]
        /\ result' = ImportPlaylistResult(url, answer)
    /\ pc' = "done"
    /\ UNCHANGED <<searchvars, libvars>>

\* views of one search entry: the lookup is made only for an entry with a
\* videoId, and any failure of it leaves the views None
EntryViews(song) == IF song.video = "5" THEN 5 ELSE None

SearchSong(song) ==
    [title |-> EntryTitle(song), artist |-> EntryArtist(song),
     album |-> EntryAlbum(song), views |-> EntryViews(song)]

EntryMaps(song) == ~EntryRaises(song)

\* the loop of import_youtube_search: an entry whose mapping raises is
\* logged and left out
SongList(songs) ==
    LET kept == SelectSeq(songs, EntryMaps)
    IN [i \in 1..Len(kept) |-> SearchSong(kept[i])]

\* a slip that returns the whole list
NotTruncated(song_list, limit) == song_list

\* song_list[:int(limit)]
Truncated(song_list, limit) ==
    LET stop == IF limit >= 0 THEN limit ELSE Len(song_list) + limit
    IN [i \in 1..(IF stop < Len(song_list) THEN stop ELSE Len(song_list)) |->
           song_list[i]]

ImportSearchResult(answer, limit) ==
    IF Fails(answer) THEN ReturnList(<<>>)
    ELSE IF answer.data = <<>> THEN ReturnList(<<>>)
    ELSE ReturnList(Truncated(SongList(answer.data), limit))

ImportYoutubeSearch ==
    /\ pc = "idle"
    /\ \E limit \in -1..MaxSongs,
          answer \in Answers(SeqsUpTo(SearchEntries, MaxSongs)) :
        /\ call' = [op |-> "import_youtube_search", limit |-> limit,
                    answer |-> answer,
                    errors |-> IF Fails(answer) THEN 1 ELSE 0]
        /\ result' = ImportSearchResult(answer, limit)
    /\ pc' = "done"
    /\ UNCHANGED <<searchvars, libvars>>

NextImport ==
    \/ ImportYoutubePlaylist
    \/ ImportYoutubeSearch
    \/ Finish

SpecImport == Init /\ [][NextImport]_vars

(***************************************************************************)
(* Properties of the import helpers, checked under SpecImport.             *)
(***************************************************************************)
\* C4: import_youtube_playlist never raises; a URL without
\* "playlist?list=" gives the empty list, an error logged and no remote
\* call; a failed, None or track-less answer gives the empty list and an
\* error logged.
C4_ImportPlaylistNeverRaises ==
    pc = "done" /\ call.op = "import_youtube_playlist" =>
        /\ result.kind = "list"
        /\ ~HasPlaylistSegment(call.url) =>
              result.value = <<>> /\ call.errors >= 1 /\ call.remote_calls = 0
        /\ call.answer.kind = "raises" => result.value = <<>> /\ call.errors >= 1
        /\ call.answer.kind = "returns" /\ call.answer.data.shape # "tracks" =>
              result.value = <<>> /\ call.errors >= 1

\* the hits of the search in progress that map, by position
MappedHits ==
    {i \in 1..Len(call.answer.data) :
        /\ call.answer.data[i].title # NoneStr
        /\ call.answer.data[i].artists # "unnamed"}

\* the position a hit takes among the hits that map
RankOf(i) == Cardinality({j \in MappedHits : j <= i})

\* C10: with limit >= 0, import_youtube_search returns at most `limit`
\* entries: the first `limit` hits that map, in the order of the search;
\* a hit whose view lookup fails is returned with views None; a failed
\* search returns the empty list.
C10_ImportSearchFirstLimit ==
    pc = "done" /\ call.op = "import_youtube_search" /\ call.limit >= 0 =>
        /\ result.kind = "list"
        /\ Len(result.value) <= call.limit
        /\ Fails(call.answer) => result.value = <<>>
        /\ ~Fails(call.answer) =>
            /\ \/ Len(result.value) = call.limit
               \/ Len(result.value) = Cardinality(MappedHits)
            /\ \A i \in MappedHits :
                 RankOf(i) <= call.limit =>
                    /\ RankOf(i) <= Len(result.value)
                    /\ result.value[RankOf(i)].title
                          = Clean(call.answer.data[i].title)
                    /\ result.value[RankOf(i)].artist
                          = (IF call.answer.data[i].artists = "named"
                             THEN "A" ELSE "")
                    /\ result.value[RankOf(i)].views
                          = (IF call.answer.data[i].video \in {"no id", "raises"}
                             THEN None ELSE 5)

\* two hits map and the limit is 1: the first is returned, and its view
\* lookup failed
C10_Witness ==
    /\ pc = "done"
    /\ call.op = "import_youtube_search"
    /\ call.limit = 1
    /\ ~Fails(call.answer)
    /\ MappedHits = {1, 2}
    /\ call.answer.data[1].video = "raises"
    /\ call.answer.data[1] # call.answer.data[2]
    /\ Len(result.value) = 1
    /\ result.value[1].views = None

(***************************************************************************)
(* The query normalizer on its own: the queries are built of the pieces    *)
(* that make and break a disc marker.                                      *)
(***************************************************************************)
\* the most pieces a query is built of
MaxChunks == 4

Chunks ==
    {<<"C", "D">>, <<"c", "d">>, <<"d", "i", "s", "c">>, <<"D", "I", "S", "C">>,
     <<"1">>, <<"2", "3">>, <<" ">>, <<"-">>, <<"x">>}

RECURSIVE Concat(_)
Concat(chunks) ==
    IF chunks = <<>> THEN <<>> ELSE Head(chunks) \o Concat(Tail(chunks))

Queries == {Concat(chunks) : chunks \in SeqsUpTo(Chunks, MaxChunks)}

InitNormalize ==
    /\ call \in [op : {"query"}, query : Queries]
    /\ result = ReturnNone
    /\ pc = "idle"
    /\ pending = 0
    /\ acc = <<>>
    /\ NoLibrary

\* the top of get_albums / get_tracks: `sent` is the query handed to the
\* remote search
NormalizeStep ==
    /\ pc = "idle"
    /\ call.op = "query"
    /\ call' = [op |-> "search", query |-> call.query,
                sent |-> NormalizeQuery(call.query)]
    /\ pc' = "done"
    /\ UNCHANGED <<result, searchvars, libvars>>

NextNormalize == NormalizeStep

SpecNormalize == InitNormalize /\ [][NextNormalize]_vars

(***************************************************************************)
(* Properties of the query normalizer, checked under SpecNormalize.        *)
(***************************************************************************)
\* q holds a disc marker from position p to position e: "CD" or "disc" in
\* any case at a word boundary, whitespace or none, and digits up to e
MarkerAt(q, p, e) ==
    /\ p = 1 \/ ~IsWord(q[p - 1])
    /\ \E kw \in {<<{"c", "C"}, {"d", "D"}>>,
                   <<{"d", "D"}, {"i", "I"}, {"s", "S"}, {"c", "C"}>>} :
        /\ p + Len(kw) <= e
        /\ \A k \in 1..Len(kw) : q[p + k - 1] \in kw[k]
        /\ \E d \in (p + Len(kw))..e :
            /\ \A i \in (p + Len(kw))..(d - 1) : q[i] = " "
            /\ \A i \in d..e : q[i] \in Digits

\* the places of the normalized query where re.sub cut a marker out, each
\* given by the number of characters kept before it
RECURSIVE CutsFrom(_, _, _)
CutsFrom(q, p, kept) ==
    IF p > Len(q) THEN {}
    ELSE IF MarkerEnd(q, p) > 0
    THEN {kept} \cup CutsFrom(q, MarkerEnd(q, p), kept)
    ELSE CutsFrom(q, p + 1, kept + 1)

Cuts == CutsFrom(StripNonWord(call.query), 1, 0)

\* C9 as stated: the query handed to the remote search holds no disc
\* marker.
C9_NoMarkerLeft ==
    pc = "done" /\ call.op = "search" =>
        \A p \in 1..Len(call.sent), e \in 1..Len(call.sent) :
            ~MarkerAt(call.sent, p, e)

\* C9, amended: every disc marker of the query is cut out, in one pass; a
\* marker left in the query handed to the remote search was put together
\* by a cut: it starts at or spans a place where a marker was cut out.
C9_MarkersLeftSpanCuts ==
    pc = "done" /\ call.op = "search" =>
        \A p \in 1..Len(call.sent), e \in 1..Len(call.sent) :
            MarkerAt(call.sent, p, e) =>
                \E r \in Cuts : p - 1 <= r /\ r <= e - 1

\* "cd1cd1" is sent as "cd1": the first marker is cut out, and the text
\* behind it, no marker where it stood, is one at the head of the result
C9_Witness ==
    /\ pc = "done"
    /\ call.op = "search"
    /\ call.query = <<"c", "d", "1", "c", "d", "1">>
    /\ call.sent = <<"c", "d", "1">>
    /\ MarkerAt(call.sent, 1, 3)
    /\ Cuts = {0}

(***************************************************************************)
(* The match scorer (component 4.2).  A text is a sequence of              *)
(* one-character strings; a number of [0,1] is a fraction <<n, d>> in      *)
(* lowest terms.  The similarity ratio is difflib's SequenceMatcher, which *)
(* youtube.py imports.                                                     *)
(***************************************************************************)
\* the most pieces a candidate title is built of
MaxTitleChunks == 2

ScorePunctuation == {"!", "-"}

\* str.lower on the letters of the model
ToLower(c) ==
    CASE c = "A" -> "a" [] c = "B" -> "b" [] c = "X" -> "x" [] c = "F" -> "f"
      [] c = "T" -> "t" [] OTHER -> c

LowerCase(s) == [i \in 1..Len(s) |-> ToLower(s[i])]

StripPunctuation(s) == SelectSeq(s, LAMBDA c : c \notin ScorePunctuation)

\* the filler tokens
Fillers ==
    {<<"f", "r", "o", "m">>, <<"f", "e", "a", "t">>, <<"f", "t">>,
     <<"f", "e", "a", "t", "u", "r", "i", "n", "g">>,
     <<"o", "f", "f", "i", "c", "i", "a", "l">>, <<"v", "i", "d", "e", "o">>,
     <<"a", "u", "d", "i", "o">>, <<"l", "y", "r", "i", "c", "s">>}

\* the words of s: the maximal runs without whitespace, `cur` being the
\* word under way
RECURSIVE TokensFrom(_, _)
TokensFrom(s, cur) ==
    LET word == IF cur = <<>> THEN <<>> ELSE <<cur>>
    IN IF s = <<>> THEN word
       ELSE IF Head(s) = " " THEN word \o TokensFrom(Tail(s), <<>>)
       ELSE TokensFrom(Tail(s), Append(cur, Head(s)))

Tokens(s) == TokensFrom(s, <<>>)

\* the words joined by one space each
RECURSIVE Join(_)
Join(words) ==
    IF words = <<>> THEN <<>>
    ELSE IF Len(words) = 1 THEN Head(words)
    ELSE Head(words) \o <<" ">> \o Join(Tail(words))

\* step 1: lowercase, strip punctuation, collapse whitespace, remove the
\* filler tokens
CleanString(s) ==
    Join(SelectSeq(Tokens(StripPunctuation(LowerCase(s))),
                   LAMBDA w : w \notin Fillers))

\* the places where " - " stands in the search term
SeparatorsOf(term) ==
    {p \in 1..(Len(term) - 2) : SubSeq(term, p, p + 2) = <<" ", "-", " ">>}

SplitAt(term, p) ==
    [title |-> SubSeq(term, 1, p - 1), artist |-> SubSeq(term, p + 3, Len(term))]

\* a slip that splits on the last " - "
SplitLast(term) ==
    IF SeparatorsOf(term) = {} THEN [title |-> term, artist |-> <<>>]
    ELSE SplitAt(term, Max(SeparatorsOf(term)))

\* step 2: the search term split on the first " - "; without one, the
\* search artist is empty.  The raw term is split, and the parts are
\* cleaned: cleaning strips the "-" the split looks for.
SplitSearch(term) ==
    IF SeparatorsOf(term) = {} THEN [title |-> term, artist |-> <<>>]
    ELSE SplitAt(term, CHOOSE p \in SeparatorsOf(term) :
                            \A r \in SeparatorsOf(term) : p <= r)

(***************************************************************************)
(* Fractions.                                                              *)
(***************************************************************************)
RECURSIVE Gcd(_, _)
Gcd(m, n) == IF n = 0 THEN m ELSE Gcd(n, m % n)

Fraction(n, d) == <<n \div Gcd(n, d), d \div Gcd(n, d)>>
Times(x, y) == Fraction(x[1] * y[1], x[2] * y[2])
Plus(x, y) == Fraction(x[1] * y[2] + y[1] * x[2], x[2] * y[2])
LessThan(x, y) == x[1] * y[2] < y[1] * x[2]
One == <<1, 1>>
Half == <<1, 2>>

(***************************************************************************)
(* difflib.SequenceMatcher(None, a, b).ratio(): 2 * M / T, with M the      *)
(* characters in the matching blocks and T the characters of both texts.   *)
(***************************************************************************)
\* the length of the run a[i], a[i+1], ... = b[j], b[j+1], ... within
\* a[..ahi] and b[..bhi]
RECURSIVE RunLength(_, _, _, _, _, _)
RunLength(a, i, ahi, b, j, bhi) ==
    IF i <= ahi /\ j <= bhi /\ a[i] = b[j]
    THEN 1 + RunLength(a, i + 1, ahi, b, j + 1, bhi)
    ELSE 0

\* the blocks <<i, j, k>>, a[i .. i+k-1] = b[j .. j+k-1], that run as far
\* as they can within a[alo..ahi] and b[blo..bhi]
MatchingBlocks(a, alo, ahi, b, blo, bhi) ==
    {<<ij[1], ij[2], RunLength(a, ij[1], ahi, b, ij[2], bhi)>> :
        ij \in {p \in (alo..ahi) \X (blo..bhi) : a[p[1]] = b[p[2]]}}

\* find_longest_match: the longest block; of those, the one starting
\* earliest in a; of those, the one starting earliest in b
LongestMatch(blocks) ==
    CHOOSE blk \in blocks :
        \A other \in blocks :
            \/ other[3] < blk[3]
            \/ other[3] = blk[3] /\ blk[1] < other[1]
            \/ other[3] = blk[3] /\ blk[1] = other[1] /\ blk[2] <= other[2]

\* get_matching_blocks: the longest match, then the same to its left and
\* to its right; the sum of the sizes
RECURSIVE MatchSize(_, _, _, _, _, _)
MatchSize(a, alo, ahi, b, blo, bhi) ==
    LET blocks == MatchingBlocks(a, alo, ahi, b, blo, bhi)
    IN IF blocks = {} THEN 0
       ELSE LET blk == LongestMatch(blocks)
            IN blk[3]
               + MatchSize(a, alo, blk[1] - 1, b, blo, blk[2] - 1)
               + MatchSize(a, blk[1] + blk[3], ahi, b, blk[2] + blk[3], bhi)

SequenceRatio(a, b) ==
    IF Len(a) + Len(b) = 0 THEN One
    ELSE Fraction(2 * MatchSize(a, 1, Len(a), b, 1, Len(b)), Len(a) + Len(b))

(***************************************************************************)
(* score(title, artist, search_term), steps 3 to 7.                        *)
(***************************************************************************)
\* min(len) / max(len) of two texts that differ (one of them is not empty)
LengthRatio(a, b) ==
    IF Len(a) <= Len(b) THEN Fraction(Len(a), Len(b))
    ELSE Fraction(Len(b), Len(a))

\* step 5: a title similarity below 0.5 is halved
Penalized(x) == IF LessThan(x, Half) THEN Times(x, Half) ELSE x

\* steps 3 to 5, on the cleaned titles
TitleSimilarity(title, search_title) ==
    Penalized(IF title = search_title THEN One
              ELSE Times(SequenceRatio(title, search_title),
                         LengthRatio(title, search_title)))

\* step 6, on the cleaned artists: 0.5 when the search names no artist
ArtistSimilarity(artist, search_artist) ==
    IF search_artist = <<>> THEN Half
    ELSE IF artist = search_artist THEN One
    ELSE SequenceRatio(artist, search_artist)

\* step 7.  In binary floating point 0.8 * 1.0 + 0.2 * 1.0 is 1.0 exactly.
score(title, artist, search_term) ==
    LET parts == SplitSearch(search_term)
        title_similarity ==
            TitleSimilarity(CleanString(title), CleanString(parts.title))
        artist_similarity ==
            ArtistSimilarity(CleanString(artist), CleanString(parts.artist))
    IN Plus(Times(<<4, 5>>, title_similarity),
            Times(<<1, 5>>, artist_similarity))

(***************************************************************************)
(* The scorer on its own: a candidate, and a search term that names the    *)
(* candidate or a text close to it.                                        *)
(***************************************************************************)
TitleChunks ==
    {<<"a">>, <<"B">>, <<" ">>, <<"-">>, <<"f", "t">>, <<" ", "-", " ">>}

Titles == {Concat(chunks) : chunks \in SeqsUpTo(TitleChunks, MaxTitleChunks)}

Artists == {<<>>, <<"x">>, <<"f", "t">>, <<"x", " ", "-", " ", "a">>}

ToUpper(c) ==
    CASE c = "a" -> "A" [] c = "b" -> "B" [] c = "x" -> "X" [] c = "f" -> "F"
      [] c = "t" -> "T" [] OTHER -> c

\* the texts a search term holds in the place of s: s itself, s in capitals,
\* with punctuation, with a filler token, after whitespace, with a letter
\* more
Rewrites(s) ==
    {s, [i \in 1..Len(s) |-> ToUpper(s[i])], s \o <<"!">>,
     s \o <<" ", "f", "t">>, <<" ">> \o s, s \o <<"b">>}

\* f"{title} - {artist}"
Format(title, artist) == title \o <<" ", "-", " ">> \o artist

\* the calls for one candidate: the search term with a separator, and
\* without one
ScoreCallsFor(t, a) ==
    {[op |-> "score", title |-> t, artist |-> a, separator |-> TRUE,
      from_title |-> t2, from_artist |-> a2, search_term |-> Format(t2, a2)] :
        t2 \in Rewrites(t), a2 \in Rewrites(a)}
    \cup
    {[op |-> "score", title |-> t, artist |-> a, separator |-> FALSE,
      from_title |-> t2, from_artist |-> <<>>, search_term |-> t2] :
        t2 \in Rewrites(t)}

InitScore ==
    /\ \E t \in Titles, a \in Artists : call \in ScoreCallsFor(t, a)
    /\ result = ReturnNone
    /\ pc = "idle"
    /\ pending = 0
    /\ acc = <<>>
    /\ NoLibrary

ScoreStep ==
    /\ pc = "idle"
    /\ call.op = "score"
    /\ result' = ReturnOne(score(call.title, call.artist, call.search_term))
    /\ pc' = "done"
    /\ UNCHANGED <<call, searchvars, libvars>>

NextScore == ScoreStep

SpecScore == InitScore /\ [][NextScore]_vars

====
